---- MODULE Spec2Model ----
(***************************************************************************)
(* A model of pyio (src/pyio.py): MemoryWriter and MemoryReader, the       *)
(* cursor-addressed codecs over an owned byte sequence.                    *)
(*                                                                         *)
(* A byte is a number 0..255 and a bytes object a sequence of them.  A     *)
(* Python str is the sequence of its code points.  A Python int is         *)
(* unbounded, and the 32- and 64-bit formats need values beyond TLC's      *)
(* machine integers, so an int is a record [neg, mag]: a sign and the      *)
(* magnitude as little-endian limbs in base 65536, without leading zero    *)
(* limbs (zero is [neg |-> FALSE, mag |-> <<>>]).                          *)
(***************************************************************************)
EXTENDS Integers, Sequences, FiniteSets, TLC

VARIABLES
    wendian,     \* MemoryWriter.endian
    wbuffer,     \* MemoryWriter.buffer
    wlast,       \* history: the writer's last call and how it ended
    wlog,        \* history: the writer's calls that returned, in order
    rlive,       \* a MemoryReader has been constructed
    rendian,     \* MemoryReader.endian
    rbuffer,     \* MemoryReader.buffer
    offset,      \* MemoryReader.offset
    rlast,       \* history: the reader's last call and how it ended
    nreads,      \* history: the number of calls the reader has made
    mirror,      \* history: nreads, while every call of the reader so far was
                 \* the read of the writer's call of the same index; else -1
    pc,          \* read_strz's position: "idle", "scan" (the loop), "decode"
    str_length,  \* read_strz's local str_length
    pos,         \* read_strz's local pos
    terminator   \* read_strz's argument

vars == <<wendian, wbuffer, wlast, wlog, rlive, rendian, rbuffer, offset,
          rlast, nreads, mirror,
          pc, str_length, pos, terminator>>

wvars == <<wendian, wbuffer, wlast, wlog>>
scanvars == <<pc, str_length, pos, terminator>>

-----------------------------------------------------------------------------
(* Bounds of the model.                                                    *)

\* the writer makes at most MaxWrites calls that append something
MaxWrites == 2
\* the reader makes at most MaxReads calls
MaxReads == 2

-----------------------------------------------------------------------------
(* Python ints as sign and magnitude.                                      *)

RECURSIVE Normalize(_)
\* drop the most significant limbs that are zero
Normalize(m) ==
    IF m = <<>> THEN <<>>
    ELSE IF m[Len(m)] = 0 THEN Normalize(SubSeq(m, 1, Len(m) - 1))
    ELSE m

RECURSIVE NatMag(_)
\* the limbs of a natural number TLC can hold
NatMag(n) == IF n = 0 THEN <<>> ELSE <<n % 65536>> \o NatMag(n \div 65536)

\* the Python int of a TLC integer
PyInt(n) == IF n < 0 THEN [neg |-> TRUE, mag |-> NatMag(-n)]
            ELSE [neg |-> FALSE, mag |-> NatMag(n)]

\* the Python int of a sign and a magnitude
MkInt(neg, m) == LET n == Normalize(m) IN [neg |-> neg /\ n # <<>>, mag |-> n]

\* the limbs of 2^k
Pow2Mag(k) == [i \in 1..(k \div 16) |-> 0] \o <<2 ^ (k % 16)>>

RECURSIVE MagLess(_, _)
\* a < b, for normalised magnitudes
MagLess(a, b) ==
    IF Len(a) # Len(b) THEN Len(a) < Len(b)
    ELSE IF a = <<>> THEN FALSE
    ELSE IF a[Len(a)] # b[Len(b)] THEN a[Len(a)] < b[Len(b)]
    ELSE MagLess(SubSeq(a, 1, Len(a) - 1), SubSeq(b, 1, Len(b) - 1))

RECURSIVE SubLimbs(_, _, _)
\* a - b - borrow limb by limb, for a >= b; as many limbs as a
SubLimbs(a, b, borrow) ==
    IF a = <<>> THEN <<>>
    ELSE LET bi == IF b = <<>> THEN 0 ELSE Head(b)
             t == Head(a) - bi - borrow
         IN <<IF t < 0 THEN t + 65536 ELSE t>>
            \o SubLimbs(Tail(a), IF b = <<>> THEN <<>> ELSE Tail(b),
                        IF t < 0 THEN 1 ELSE 0)

\* a - b, for a >= b
SubMag(a, b) == Normalize(SubLimbs(a, b, 0))

RECURSIVE AddLimbs(_, _, _)
\* a + b + carry limb by limb
AddLimbs(a, b, carry) ==
    IF a = <<>> /\ b = <<>> THEN (IF carry = 0 THEN <<>> ELSE <<carry>>)
    ELSE LET ai == IF a = <<>> THEN 0 ELSE Head(a)
             bi == IF b = <<>> THEN 0 ELSE Head(b)
             t == ai + bi + carry
         IN <<t % 65536>>
            \o AddLimbs(IF a = <<>> THEN <<>> ELSE Tail(a),
                        IF b = <<>> THEN <<>> ELSE Tail(b), t \div 65536)

\* a + b
AddMag(a, b) == Normalize(AddLimbs(a, b, 0))

RECURSIVE MulAdd(_, _, _)
\* m * k + c, for small k and c
MulAdd(m, k, c) ==
    IF m = <<>> THEN (IF c = 0 THEN <<>> ELSE <<c>>)
    ELSE LET t == Head(m) * k + c
         IN <<t % 65536>> \o MulAdd(Tail(m), k, t \div 65536)

RECURSIVE BytesValue(_)
\* the number a byte sequence spells, least significant byte first
BytesValue(s) ==
    IF s = <<>> THEN <<>>
    ELSE Normalize(MulAdd(BytesValue(Tail(s)), 256, Head(s)))

Reverse(s) == [i \in 1..Len(s) |-> s[Len(s) + 1 - i]]

-----------------------------------------------------------------------------
(* struct.pack and struct.unpack with an explicit byte order, for the      *)
(* eight formats the classes use.                                          *)

Endians == {"<", ">"}
Formats == {"b", "h", "i", "q", "B", "H", "I", "Q"}
SignedFormats == {"b", "h", "i", "q"}

\* the standard size of a format, in bytes
Size(fmt) ==
    CASE fmt \in {"b", "B"} -> 1
      [] fmt \in {"h", "H"} -> 2
      [] fmt \in {"i", "I"} -> 4
      [] fmt \in {"q", "Q"} -> 8

\* the value fits the format: 0 <= v < 2^(8n), or -2^(8n-1) <= v < 2^(8n-1)
InRange(fmt, v) ==
    IF fmt \in SignedFormats
    THEN IF v.neg THEN ~MagLess(Pow2Mag(8 * Size(fmt) - 1), v.mag)
         ELSE MagLess(v.mag, Pow2Mag(8 * Size(fmt) - 1))
    ELSE ~v.neg /\ MagLess(v.mag, Pow2Mag(8 * Size(fmt)))

\* byte k (from 1, least significant first) of a magnitude
ByteAt(m, k) ==
    LET limb == IF (k + 1) \div 2 <= Len(m) THEN m[(k + 1) \div 2] ELSE 0
    IN IF k % 2 = 1 THEN limb % 256 ELSE limb \div 256

PackSwapsOrder(endian, fmt, v) ==
    IF ~InRange(fmt, v) THEN [ok |-> FALSE, err |-> "struct.error", bytes |-> <<>>]
    ELSE LET n == Size(fmt)
             u == IF v.neg THEN SubMag(Pow2Mag(8 * n), v.mag) ELSE v.mag
             le == [k \in 1..n |-> ByteAt(u, k)]
         IN [ok |-> TRUE, err |-> "",
             bytes |-> IF endian = ">" THEN le ELSE Reverse(le)]

PackWraps(endian, fmt, v) ==
    LET n == Size(fmt)
        m == Normalize([i \in 1..((n + 1) \div 2) |->
                          ByteAt(v.mag, 2 * i - 1)
                          + (IF 2 * i <= n THEN 256 * ByteAt(v.mag, 2 * i) ELSE 0)])
        u == IF v.neg /\ m # <<>> THEN SubMag(Pow2Mag(8 * n), m) ELSE m
        le == [k \in 1..n |-> ByteAt(u, k)]
    IN [ok |-> TRUE, err |-> "",
        bytes |-> IF endian = "<" THEN le ELSE Reverse(le)]

\* pack(endian + fmt, v): the two's-complement bytes of v in the byte order,
\* or struct.error when v does not fit
Pack(endian, fmt, v) ==
    IF ~InRange(fmt, v) THEN [ok |-> FALSE, err |-> "struct.error", bytes |-> <<>>]
    ELSE LET n == Size(fmt)
             u == IF v.neg THEN SubMag(Pow2Mag(8 * n), v.mag) ELSE v.mag
             le == [k \in 1..n |-> ByteAt(u, k)]
         IN [ok |-> TRUE, err |-> "",
             bytes |-> IF endian = "<" THEN le ELSE Reverse(le)]

\* the limbs of n bytes, least significant first
LimbsOf(le) ==
    IF Len(le) = 1 THEN <<le[1]>>
    ELSE [i \in 1..(Len(le) \div 2) |-> le[2 * i - 1] + 256 * le[2 * i]]

Zero == [neg |-> FALSE, mag |-> <<>>]

UnpackZeroPads(endian, fmt, buf) ==
    LET n == Size(fmt)
        padded == [k \in 1..n |-> IF k <= Len(buf) THEN buf[k] ELSE 0]
        le == IF endian = "<" THEN padded ELSE Reverse(padded)
        m == LimbsOf(le)
    IN IF Len(buf) > n THEN [ok |-> FALSE, err |-> "struct.error", val |-> Zero]
       ELSE IF fmt \in SignedFormats /\ le[n] >= 128
       THEN [ok |-> TRUE, err |-> "", val |-> MkInt(TRUE, SubMag(Pow2Mag(8 * n), Normalize(m)))]
       ELSE [ok |-> TRUE, err |-> "", val |-> MkInt(FALSE, m)]

UnpackLittleEndian(endian, fmt, buf) ==
    LET n == Size(fmt)
        m == LimbsOf(buf)
    IN IF Len(buf) # n THEN [ok |-> FALSE, err |-> "struct.error", val |-> Zero]
       ELSE IF fmt \in SignedFormats /\ buf[n] >= 128
       THEN [ok |-> TRUE, err |-> "", val |-> MkInt(TRUE, SubMag(Pow2Mag(8 * n), Normalize(m)))]
       ELSE [ok |-> TRUE, err |-> "", val |-> MkInt(FALSE, m)]

\* unpack(endian + fmt, buf)[0]: the int the bytes spell, or struct.error
\* when buf is not exactly the format's size
Unpack(endian, fmt, buf) ==
    LET n == Size(fmt)
        le == IF endian = "<" THEN buf ELSE Reverse(buf)
        m == LimbsOf(le)
    IN IF Len(buf) # n THEN [ok |-> FALSE, err |-> "struct.error", val |-> Zero]
       ELSE IF fmt \in SignedFormats /\ le[n] >= 128
       THEN [ok |-> TRUE, err |-> "", val |-> MkInt(TRUE, SubMag(Pow2Mag(8 * n), Normalize(m)))]
       ELSE [ok |-> TRUE, err |-> "", val |-> MkInt(FALSE, m)]

-----------------------------------------------------------------------------
(* bytes slicing, and the UTF-8 codec of str.encode and bytes.decode.      *)

Min(a, b) == IF a < b THEN a ELSE b
Max(a, b) == IF a > b THEN a ELSE b

\* a slice index as Python clamps it: negative counts from the end
ClampIndex(i, len) == IF i < 0 THEN Max(i + len, 0) ELSE Min(i, len)

\* buf[i:j]
Slice(buf, i, j) ==
    LET lo == ClampIndex(i, Len(buf))
        hi == ClampIndex(j, Len(buf))
    IN IF lo >= hi THEN <<>> ELSE SubSeq(buf, lo + 1, hi)

\* the UTF-8 bytes of one code point (no surrogate)
EncodeChar(cp) ==
    IF cp < 128 THEN <<cp>>
    ELSE IF cp < 2048 THEN <<192 + (cp \div 64), 128 + (cp % 64)>>
    ELSE IF cp < 65536
    THEN <<224 + (cp \div 4096), 128 + ((cp \div 64) % 64), 128 + (cp % 64)>>
    ELSE <<240 + (cp \div 262144), 128 + ((cp \div 4096) % 64),
           128 + ((cp \div 64) % 64), 128 + (cp % 64)>>

RECURSIVE Encode(_)
\* s.encode('utf-8')
Encode(s) == IF s = <<>> THEN <<>> ELSE EncodeChar(Head(s)) \o Encode(Tail(s))

RECURSIVE Decode(_)
\* b.decode('utf-8'): the code points, or UnicodeDecodeError on a byte that
\* starts no character, a missing continuation byte, an overlong form, a
\* surrogate or a code point beyond U+10FFFF
Decode(b) ==
    IF b = <<>> THEN [ok |-> TRUE, err |-> "", str |-> <<>>]
    ELSE LET b0 == b[1]
             n == IF b0 < 128 THEN 1
                  ELSE IF b0 \in 194..223 THEN 2
                  ELSE IF b0 \in 224..239 THEN 3
                  ELSE IF b0 \in 240..244 THEN 4
                  ELSE 0
             c(i) == b[i] - 128
             cp == CASE n = 1 -> b0
                     [] n = 2 -> (b0 - 192) * 64 + c(2)
                     [] n = 3 -> (b0 - 224) * 4096 + c(2) * 64 + c(3)
                     [] n = 4 -> (b0 - 240) * 262144 + c(2) * 4096 + c(3) * 64 + c(4)
             valid == /\ n >= 1
                      /\ n <= Len(b)
                      /\ \A i \in 2..n : b[i] \in 128..191
                      /\ n = 3 => cp >= 2048 /\ cp \notin 55296..57343
                      /\ n = 4 => cp \in 65536..1114111
         IN IF ~valid
            THEN [ok |-> FALSE, err |-> "UnicodeDecodeError", str |-> <<>>]
            ELSE LET rest == Decode(SubSeq(b, n + 1, Len(b)))
                 IN IF rest.ok
                    THEN [ok |-> TRUE, err |-> "", str |-> <<cp>> \o rest.str]
                    ELSE rest

-----------------------------------------------------------------------------
(* The inputs the model draws calls from.                                  *)

\* the largest and the smallest value of a format
MaxOf(fmt) ==
    MkInt(FALSE, SubMag(Pow2Mag(IF fmt \in SignedFormats THEN 8 * Size(fmt) - 1
                                ELSE 8 * Size(fmt)), <<1>>))
MinOf(fmt) ==
    IF fmt \in SignedFormats THEN MkInt(TRUE, Pow2Mag(8 * Size(fmt) - 1)) ELSE Zero

\* a value in the middle of the range whose bytes all differ:
\* 0x12, 0x1234, 0x12345678, 0x123456789ABCDEF0
MidOf(fmt) ==
    MkInt(FALSE,
          CASE Size(fmt) = 1 -> <<18>>
            [] Size(fmt) = 2 -> <<4660>>
            [] Size(fmt) = 4 -> <<22136, 4660>>
            [] Size(fmt) = 8 -> <<57072, 39612, 22136, 4660>>)

\* the values written in a format: the ends of its range (for an unsigned
\* format the upper end and the middle value), and the first value beyond
\* each end
Values(fmt) ==
    { IF fmt \in SignedFormats THEN MinOf(fmt) ELSE MidOf(fmt),
      MaxOf(fmt),
      MkInt(FALSE, AddMag(MaxOf(fmt).mag, <<1>>)),
      MkInt(TRUE, AddMag(MinOf(fmt).mag, <<1>>)) }

\* strings: "", "abc", "é€" (2- and 3-byte characters),
\* "\U0001F600" (a 4-byte character), "a\0b" (holds a zero byte)
Strs == { <<>>, <<97, 98, 99>>, <<233, 8364>>, <<128512>>, <<97, 0, 98>> }

\* raw bytes: b"a\xff", b"\x7f\x80", b"\xc3" (the first byte of a character)
Datas == { <<97, 255>>, <<127, 128>>, <<195>> }

\* terminators given to read_strz
Terms == { 0, 97, 128, 255 }

\* lengths given to read_str, counts given to read and skip, offsets to seek
Lens == { 1, 3 }
Counts == { 2 }
SkipCounts == { -1, 2 }
SeekOffsets == { 1, Len(rbuffer) + 1 }

-----------------------------------------------------------------------------
(* The state after MemoryWriter(endian).                                   *)

NoCall == [op |-> "none", fmt |-> "", arg |-> 0, status |-> "ok", val |-> Zero,
           out |-> <<>>, pre |-> 0, post |-> 0]
NoWrite == [op |-> "none", fmt |-> "", val |-> Zero, data |-> <<>>,
            status |-> "ok", before |-> <<>>]

Init ==
    /\ wendian \in Endians
    /\ wbuffer = <<>>
    /\ wlast = NoWrite
    /\ wlog = <<>>
    /\ rlive = FALSE
    /\ rendian = "<"
    /\ rbuffer = <<>>
    /\ offset = 0
    /\ rlast = NoCall
    /\ nreads = 0
    /\ mirror = 0
    /\ pc = "idle"
    /\ str_length = 0
    /\ pos = 0
    /\ terminator = 0

-----------------------------------------------------------------------------
(* MemoryWriter.                                                           *)

\* write: self.buffer += data
BufferAppend(buffer, data) == buffer \o data

\* the writer's call returned (status "ok") or raised, leaving buffer `after`
WriterCall(op, fmt, val, data, status, after) ==
    /\ wbuffer' = after
    /\ wlast' = [op |-> op, fmt |-> fmt, val |-> val, data |-> data,
                 status |-> status, before |-> wbuffer]
    /\ wlog' = IF status = "ok"
               THEN Append(wlog, [op |-> op, fmt |-> fmt, val |-> val, data |-> data])
               ELSE wlog
    /\ UNCHANGED <<wendian, rlive, rendian, rbuffer, offset, rlast, nreads, mirror>>
    /\ UNCHANGED scanvars

\* the writer is in use: no reader was made of its buffer yet
Writing == ~rlive /\ Len(wlog) < MaxWrites

\* write(data)
Write(data) ==
    /\ Writing
    /\ WriterCall("write", "", Zero, data, "ok", BufferAppend(wbuffer, data))

\* write_i8 .. write_u64: pack, then write
WriteNum(fmt, v) ==
    /\ Writing
    /\ LET p == Pack(wendian, fmt, v)
       IN IF p.ok
          THEN WriterCall("write_num", fmt, v, <<>>, "ok", BufferAppend(wbuffer, p.bytes))
          ELSE WriterCall("write_num", fmt, v, <<>>, p.err, wbuffer)

\* write_strz: encode, write, then write_i8(0)
WriteStrz(s) ==
    /\ Writing
    /\ LET p == Pack(wendian, "b", PyInt(0))
       IN WriterCall("write_strz", "", Zero, s, "ok",
                     BufferAppend(BufferAppend(wbuffer, Encode(s)), p.bytes))

-----------------------------------------------------------------------------
(* MemoryReader.                                                           *)

\* MemoryReader(buffer, endian) over the writer's buffer
NewReader(endian) ==
    /\ ~rlive
    /\ rlive' = TRUE
    /\ rbuffer' = wbuffer
    /\ rendian' = endian
    /\ offset' = 0
    /\ rlast' = NoCall
    /\ nreads' = 0
    /\ mirror' = 0
    /\ wlast' = NoWrite
    /\ UNCHANGED <<wendian, wbuffer, wlog>>
    /\ UNCHANGED scanvars

\* read(count): the slice at the cursor, and the cursor moved by count
DoRead(buf, off, count) ==
    [bytes |-> Slice(buf, off, off + count), off |-> off + count]

\* read_i8 .. read_u64: read the format's size, then unpack
DoReadNum(buf, endian, off, fmt) ==
    LET r == DoRead(buf, off, Size(fmt))
        u == Unpack(endian, fmt, r.bytes)
    IN [ok |-> u.ok, err |-> u.err, val |-> u.val, off |-> r.off]

\* read_str(length): read, then decode
DoReadStr(buf, off, length) ==
    LET r == DoRead(buf, off, length)
        d == Decode(r.bytes)
    IN [ok |-> d.ok, err |-> d.err, str |-> d.str, off |-> r.off]

RECURSIVE ScanLoop(_, _, _, _, _)
\* read_strz's loop: while self.read_i8() != terminator: str_length += 1
ScanLoop(buf, endian, off, term, len) ==
    LET r == DoReadNum(buf, endian, off, "b")
    IN IF ~r.ok THEN [ok |-> FALSE, err |-> r.err, len |-> len, off |-> r.off]
       ELSE IF r.val # PyInt(term) THEN ScanLoop(buf, endian, r.off, term, len + 1)
       ELSE [ok |-> TRUE, err |-> "", len |-> len, off |-> r.off]

\* read_strz's tail: seek(pos), read_str(str_length), skip(1)
DoStrzTail(buf, start, len) ==
    LET r == DoReadStr(buf, start, len)
    IN IF r.ok THEN [ok |-> TRUE, err |-> "", str |-> r.str, off |-> r.off + 1]
       ELSE r

DoReadStrzNoSkip(buf, endian, off, term) ==
    LET s == ScanLoop(buf, endian, off, term, 0)
        r == DoReadStr(buf, off, s.len)
    IN IF s.ok THEN r
       ELSE [ok |-> FALSE, err |-> s.err, str |-> <<>>, off |-> s.off]

\* read_strz(terminator)
DoReadStrz(buf, endian, off, term) ==
    LET s == ScanLoop(buf, endian, off, term, 0)
    IN IF s.ok THEN DoStrzTail(buf, off, s.len)
       ELSE [ok |-> FALSE, err |-> s.err, str |-> <<>>, off |-> s.off]

\* the reader accepts a call
Reading == rlive /\ pc = "idle" /\ nreads < MaxReads

\* the reader's call, entered with the cursor at `pre`, returned or raised
\* with the cursor at `post`; it mirrors the writer's call of the same index
\* when `mirrors`
ReaderCallFrom(pre, op, fmt, arg, status, val, out, post, mirrors) ==
    /\ offset' = post
    /\ rlast' = [op |-> op, fmt |-> fmt, arg |-> arg, status |-> status,
                 val |-> val, out |-> out, pre |-> pre, post |-> post]
    /\ nreads' = nreads + 1
    /\ mirror' = IF mirror = nreads /\ mirrors THEN mirror + 1 ELSE -1
    /\ UNCHANGED <<rlive, rendian, rbuffer>>
    /\ UNCHANGED wvars

ReaderCall(op, fmt, arg, status, val, out, post, mirrors) ==
    ReaderCallFrom(offset, op, fmt, arg, status, val, out, post, mirrors)

\* the writer's call of index nreads + 1 was `op` with format `fmt`
Mirrors(op, fmt) ==
    /\ nreads < Len(wlog)
    /\ wlog[nreads + 1].op = op
    /\ wlog[nreads + 1].fmt = fmt

Read(count) ==
    /\ Reading
    /\ LET r == DoRead(rbuffer, offset, count)
       IN ReaderCall("read", "", count, "ok", Zero, r.bytes, r.off, FALSE)
    /\ UNCHANGED scanvars

ReadNum(fmt) ==
    /\ Reading
    /\ LET r == DoReadNum(rbuffer, rendian, offset, fmt)
       IN ReaderCall("read_num", fmt, 0, IF r.ok THEN "ok" ELSE r.err, r.val, <<>>,
                     r.off, Mirrors("write_num", fmt))
    /\ UNCHANGED scanvars

ReadStr(length) ==
    /\ Reading
    /\ LET r == DoReadStr(rbuffer, offset, length)
       IN ReaderCall("read_str", "", length, IF r.ok THEN "ok" ELSE r.err, Zero,
                     r.str, r.off, FALSE)
    /\ UNCHANGED scanvars

ReadStrz(term) ==
    /\ Reading
    /\ LET r == DoReadStrz(rbuffer, rendian, offset, term)
       IN ReaderCall("read_strz", "", term, IF r.ok THEN "ok" ELSE r.err, Zero,
                     r.str, r.off, term = 0 /\ Mirrors("write_strz", ""))
    /\ UNCHANGED scanvars

SeekTargetClamped(off) == Min(off, Len(rbuffer))

\* seek(offset): self.offset = offset
SeekTarget(off) == off

Seek(off) ==
    /\ Reading
    /\ ReaderCall("seek", "", off, "ok", Zero, <<>>, SeekTarget(off), FALSE)
    /\ UNCHANGED scanvars

\* skip(count): self.seek(self.tell() + count)
Skip(count) ==
    /\ Reading
    /\ ReaderCall("skip", "", count, "ok", Zero, <<>>, SeekTarget(offset + count), FALSE)
    /\ UNCHANGED scanvars

-----------------------------------------------------------------------------
(* read_strz step by step: one action per iteration of its loop.           *)

\* lines 138-139: str_length = 0; pos = self.tell()
StrzBegin(term) ==
    /\ Reading
    /\ pc' = "scan"
    /\ str_length' = 0
    /\ pos' = offset
    /\ terminator' = term
    /\ UNCHANGED <<rlive, rendian, rbuffer, offset, rlast, nreads, mirror>>
    /\ UNCHANGED wvars

\* lines 140-141: one evaluation of the loop's condition (read_i8: read one
\* byte, unpack it), and the loop's body
StrzScan ==
    /\ pc = "scan"
    /\ \E r \in {DoRead(rbuffer, offset, Size("b"))} :
       \E u \in {Unpack(rendian, "b", r.bytes)} :
          IF ~u.ok
          THEN /\ ReaderCallFrom(pos, "read_strz", "", terminator, u.err, Zero, <<>>,
                               r.off, FALSE)
               /\ pc' = "idle"
               /\ UNCHANGED <<str_length, pos, terminator>>
          ELSE /\ offset' = r.off
               /\ pc' = IF u.val # PyInt(terminator) THEN "scan" ELSE "decode"
               /\ str_length' = IF u.val # PyInt(terminator) THEN str_length + 1
                                ELSE str_length
               /\ UNCHANGED <<pos, terminator>>
               /\ UNCHANGED <<rlive, rendian, rbuffer, rlast, nreads, mirror>>
               /\ UNCHANGED wvars

\* lines 142-145: seek(pos), read_str(str_length), skip(1), return
StrzDecode ==
    /\ pc = "decode"
    /\ \E r \in {DoStrzTail(rbuffer, SeekTarget(pos), str_length)} :
          ReaderCallFrom(pos, "read_strz", "", terminator, IF r.ok THEN "ok" ELSE r.err,
                         Zero, r.str, r.off, terminator = 0 /\ Mirrors("write_strz", ""))
    /\ pc' = "idle"
    /\ UNCHANGED <<str_length, pos, terminator>>

-----------------------------------------------------------------------------
(* Specifications.                                                         *)

\* the numeric codec
Next ==
    \/ \E fmt \in Formats : \E v \in Values(fmt) : WriteNum(fmt, v)
    \/ \E e \in Endians : NewReader(e)
    \/ \E fmt \in Formats : ReadNum(fmt)

Spec == Init /\ [][Next]_vars

\* the string codec and the cursor
NextStr ==
    \/ \E d \in Datas : Write(d)
    \/ \E s \in Strs : WriteStrz(s)
    \/ \E e \in Endians : NewReader(e)
    \/ \E c \in Counts : Read(c)
    \/ \E n \in Lens : ReadStr(n)
    \/ \E t \in Terms : ReadStrz(t)
    \/ \E o \in SeekOffsets : Seek(o)
    \/ \E c \in SkipCounts : Skip(c)

SpecStr == Init /\ [][NextStr]_vars

\* read_strz's loop, which runs on once entered
NextScan ==
    \/ \E d \in Datas : Write(d)
    \/ \E s \in Strs : WriteStrz(s)
    \/ \E e \in Endians : NewReader(e)
    \/ \E o \in SeekOffsets : Seek(o)
    \/ \E t \in Terms : StrzBegin(t)
    \/ StrzScan
    \/ StrzDecode

SpecScan == Init /\ [][NextScan]_vars /\ WF_vars(StrzScan) /\ WF_vars(StrzDecode)

-----------------------------------------------------------------------------
(* The claims.                                                             *)

\* a < b, for Python ints
IntLess(a, b) ==
    IF a.neg # b.neg THEN a.neg
    ELSE IF a.neg THEN MagLess(b.mag, a.mag)
    ELSE MagLess(a.mag, b.mag)

\* the bytes of a sequence, as a set
Range(s) == { s[i] : i \in 1..Len(s) }

\* the bytes the writer's last call appended
Appended == SubSeq(wbuffer, Len(wlast.before) + 1, Len(wbuffer))

RECURSIVE StrzSpan(_)
\* the bytes write_strz leaves for the first k strings written
StrzSpan(k) == IF k = 0 THEN 0 ELSE StrzSpan(k - 1) + Len(Encode(wlog[k].data)) + 1

\* the positions at or after the cursor `from` that hold the byte t
Hits(from, t) == { p \in Max(from, 0)..(Len(rbuffer) - 1) : rbuffer[p + 1] = t }
FirstHit(from, t) == CHOOSE p \in Hits(from, t) : \A q \in Hits(from, t) : p <= q

\* C1: numeric round trip.  When a reader over the writer's buffer, with the
\* writer's endianness, has made k reads, the i-th in the format of the
\* writer's i-th write, the k-th read returned the value of the k-th write.
C1_RoundTrip ==
    (rlive /\ mirror >= 1 /\ rlast.op = "read_num" /\ rendian = wendian)
        => /\ rlast.status = "ok"
           /\ rlast.val = wlog[mirror].val

\* the second of two reads returned the second value written, -2^63, from a
\* big-endian buffer that holds a value of another format before it
C1_Witness ==
    /\ rlive /\ mirror = 2 /\ rendian = ">" /\ wendian = ">"
    /\ wlog[1].fmt = "H" /\ wlog[2].fmt = "q"
    /\ wlog[2].val = MinOf("q")
    /\ rlast.status = "ok" /\ rlast.val = MinOf("q")

\* C2: the reader's cursor stays within 0..length after every call.
C2_CursorInBounds == rlive => (0 <= offset /\ offset <= Len(rbuffer))

\* C3: a numeric read with fewer than width/8 bytes between the cursor and
\* the end of the data raises struct.error and returns no value.
C3_Underflow ==
    (rlive /\ rlast.op = "read_num" /\ Len(rbuffer) - rlast.pre < Size(rlast.fmt))
        => /\ rlast.status = "struct.error"
           /\ rlast.val = Zero

\* read_u32 with two bytes left raised
C3_Witness ==
    /\ rlive /\ rlast.op = "read_num" /\ rlast.fmt = "I"
    /\ Len(rbuffer) - rlast.pre = 2
    /\ rlast.status = "struct.error"

\* C4: read_str(length) consumes exactly length bytes from the cursor and
\* returns their decoding, or fails; with fewer than length bytes left it
\* fails with the underflow error and returns no shorter string.
C4_ReadStrExact ==
    (rlive /\ rlast.op = "read_str" /\ rlast.pre >= 0)
        => IF rlast.pre + rlast.arg <= Len(rbuffer)
           THEN rlast.status = "ok"
                    => /\ rlast.post = rlast.pre + rlast.arg
                       /\ rlast.out = Decode(SubSeq(rbuffer, rlast.pre + 1,
                                                    rlast.pre + rlast.arg)).str
           ELSE rlast.status = "struct.error"

\* C5: read_strz(t), for t in 0..255, with a byte t at or after the cursor c:
\* it returns the decoding of the bytes from c up to the first such position
\* p, and leaves the cursor at p + 1.
C5_StrzFindsTerminator ==
    (/\ rlive /\ rlast.op = "read_strz"
     /\ rlast.arg \in 0..255
     /\ rlast.pre \in 0..Len(rbuffer)
     /\ Hits(rlast.pre, rlast.arg) # {}
     /\ Decode(SubSeq(rbuffer, rlast.pre + 1, FirstHit(rlast.pre, rlast.arg))).ok)
        => /\ rlast.status = "ok"
           /\ rlast.out = Decode(SubSeq(rbuffer, rlast.pre + 1,
                                        FirstHit(rlast.pre, rlast.arg))).str
           /\ rlast.post = FirstHit(rlast.pre, rlast.arg) + 1
           /\ offset = rlast.post

\* C6: null-terminated round trip.  After write_strz of strings whose
\* encodings hold no zero byte, the k-th read_strz() of a fresh reader
\* returns the k-th string and leaves the cursor at the sum of
\* byte_length + 1 over the first k strings.
C6_StrzRoundTrip ==
    (/\ rlive /\ mirror >= 1 /\ rlast.op = "read_strz"
     /\ \A i \in 1..mirror : 0 \notin Range(Encode(wlog[i].data)))
        => /\ rlast.status = "ok"
           /\ rlast.out = wlog[mirror].data
           /\ offset = StrzSpan(mirror)

\* the second read_strz returned the 4-byte character written after "abc",
\* and the cursor is at (3 + 1) + (4 + 1)
C6_Witness ==
    /\ rlive /\ mirror = 2 /\ rlast.op = "read_strz"
    /\ wlog[1].data = <<97, 98, 99>> /\ wlog[2].data = <<128512>>
    /\ rlast.out = <<128512>>
    /\ offset = 9

\* C7: write_<width>(v) appends exactly width/8 bytes, the two's-complement
\* or unsigned encoding of v, least significant byte first for "<" and most
\* significant first for ">": the bytes spell v, or 2^width - |v| for v < 0.
\* Little-endian write_u32(0x12345678) gives [0x78,0x56,0x34,0x12], which a
\* big-endian reader reads as 0x78563412 and a little-endian one as 0x12345678.
C7_Encoding ==
    /\ (wlast.op = "write_num" /\ wlast.status = "ok")
        => LET n == Size(wlast.fmt)
               le == IF wendian = "<" THEN Appended ELSE Reverse(Appended)
           IN /\ Len(wbuffer) = Len(wlast.before) + n
              /\ SubSeq(wbuffer, 1, Len(wlast.before)) = wlast.before
              /\ Range(Appended) \subseteq 0..255
              /\ IF wlast.val.neg
                 THEN AddMag(BytesValue(le), wlast.val.mag) = Pow2Mag(8 * n)
                 ELSE BytesValue(le) = wlast.val.mag
    /\ (wlast.op = "write_num" /\ wlast.fmt = "I" /\ wlast.val = PyInt(305419896)
        /\ wendian = "<")
        => Appended = <<120, 86, 52, 18>>
    /\ (rlive /\ rlast.op = "read_num" /\ rlast.fmt = "I"
        /\ Slice(rbuffer, rlast.pre, rlast.pre + 4) = <<120, 86, 52, 18>>)
        => rlast.val = PyInt(IF rendian = ">" THEN 2018915346 ELSE 305419896)

\* a big-endian reader read 0x78563412 from the bytes a little-endian
\* write_u32(0x12345678) appended after a negative 16-bit value
C7_Witness ==
    /\ rlive /\ wendian = "<" /\ rendian = ">"
    /\ Len(wlog) = 2
    /\ wlog[1].fmt = "h" /\ wlog[1].val.neg
    /\ wlog[2].fmt = "I" /\ wlog[2].val = PyInt(305419896)
    /\ rbuffer = <<0, 128, 120, 86, 52, 18>>
    /\ rlast.op = "read_num" /\ rlast.fmt = "I" /\ rlast.pre = 2
    /\ rlast.val = PyInt(2018915346)

\* C8: write_<width>(v) with v below the format's smallest or above its
\* largest value raises struct.error and leaves the buffer as it was.
C8_RangeRejected ==
    (/\ wlast.op = "write_num"
     /\ IntLess(wlast.val, MinOf(wlast.fmt)) \/ IntLess(MaxOf(wlast.fmt), wlast.val))
        => /\ wlast.status = "struct.error"
           /\ wbuffer = wlast.before

\* write_u8(-1) raised on a writer whose buffer held bytes
C8_Witness ==
    /\ wlast.op = "write_num" /\ wlast.fmt = "B" /\ wlast.val = PyInt(-1)
    /\ wlast.status = "struct.error"
    /\ wbuffer # <<>> /\ wbuffer = wlast.before

\* C9: read_strz(t) with no byte t at or after the cursor ends, with the
\* error a numeric read raises at the end of the data, and returns no string.
C9_Unterminated ==
    /\ (pc # "idle") ~> (pc = "idle")
    /\ [](( /\ rlive /\ pc = "idle" /\ rlast.op = "read_strz"
            /\ rlast.arg \in 0..255
            /\ Hits(rlast.pre, rlast.arg) = {})
          => /\ rlast.status = DoReadNum(rbuffer, rendian, Len(rbuffer), "b").err
             /\ rlast.status = "struct.error"
             /\ rlast.out = <<>>)

\* read_strz() from inside a buffer that holds no zero byte raised, the loop
\* having read every byte to the end
C9_Witness ==
    /\ rlive /\ pc = "idle" /\ rlast.op = "read_strz" /\ rlast.arg = 0
    /\ rlast.pre = 1 /\ Len(rbuffer) = 4
    /\ Hits(rlast.pre, 0) = {}
    /\ rlast.status = "struct.error"
    /\ str_length = 3

\* C10: seek(offset) makes tell() return offset, skip(count) makes it return
\* the previous tell() plus count, and no call of the reader changes its
\* bytes or its endianness.
C10_Repositioning ==
    [][(rlive /\ nreads' = nreads + 1)
          => /\ rbuffer' = rbuffer
             /\ rendian' = rendian
             /\ rlast'.op = "seek" => offset' = rlast'.arg
             /\ rlast'.op = "skip" => offset' = offset + rlast'.arg]_vars

\* seek past the end of the data, from a cursor inside it
C10_Witness ==
    /\ rlive /\ rlast.op = "seek"
    /\ rlast.pre = 2
    /\ rlast.arg = Len(rbuffer) + 1
    /\ offset = Len(rbuffer) + 1

====
